---------------------------- MODULE Spec2Model ----------------------------
(***************************************************************************)
(* Model of app.py: the correlation lead/lag backtest of a target asset    *)
(* guided by a guide asset, and its buy-and-hold and monthly DCA           *)
(* baselines.                                                              *)
(*                                                                         *)
(* Numbers.  The program computes in IEEE doubles (numpy float64).  A      *)
(* value is modelled as a pair <<n, d>>: for d > 0 the exact rational n/d  *)
(* in lowest terms, and for d = 0 the non-finite values of float64:        *)
(* <<1,0>> = +inf, <<-1,0>> = -inf, <<0,0>> = NaN.  Rounding error is not  *)
(* modelled; division by zero, inf and NaN propagate as numpy does.        *)
(***************************************************************************)
EXTENDS Integers, Sequences, FiniteSets

(***************************************************************************)
(* Bounds of the model.                                                    *)
(***************************************************************************)
MaxRows == 5        \* at most this many rows are returned by the provider
MaxLag == 2         \* lag_days ranges over 1..MaxLag (slider: 1..5)
LookbackDays == 2   \* lookback; the slider offers 5..100, the model a short window

(***************************************************************************)
(* Arithmetic on values.                                                   *)
(***************************************************************************)
Abs(x) == IF x < 0 THEN -x ELSE x

Sign(x) == IF x > 0 THEN 1 ELSE IF x < 0 THEN -1 ELSE 0

RECURSIVE Gcd(_, _)
Gcd(a, b) == IF b = 0 THEN a ELSE Gcd(b, a % b)

NaN == <<0, 0>>
PosInf == <<1, 0>>

IsNaN(a) == a[2] = 0 /\ a[1] = 0
IsFinite(a) == a[2] > 0

\* n/d brought to lowest terms with a positive denominator; d = 0 keeps
\* only the sign of n.
Norm(n, d) ==
    IF d = 0 THEN <<Sign(n), 0>>
    ELSE LET s == IF d < 0 THEN -1 ELSE 1
             g == Gcd(Abs(n), Abs(d))
         IN  <<(s * n) \div g, (s * d) \div g>>

Num(k) == <<k, 1>>

Mul(a, b) ==
    IF IsNaN(a) \/ IsNaN(b) THEN NaN
    ELSE LET g1 == Gcd(Abs(a[1]), b[2])
             g2 == Gcd(Abs(b[1]), a[2])
             n1 == IF g1 = 0 THEN a[1] ELSE a[1] \div g1
             d2 == IF g1 = 0 THEN b[2] ELSE b[2] \div g1
             n2 == IF g2 = 0 THEN b[1] ELSE b[1] \div g2
             d1 == IF g2 = 0 THEN a[2] ELSE a[2] \div g2
         IN  Norm(n1 * n2, d1 * d2)

\* 1/a; 1/0 is +inf as for the positive zero of float64
Recip(a) ==
    IF IsNaN(a) THEN NaN
    ELSE IF a[1] = 0 THEN PosInf
    ELSE IF a[1] < 0 THEN <<-a[2], -a[1]>>
    ELSE <<a[2], a[1]>>

Div(a, b) == Mul(a, Recip(b))

Add(a, b) ==
    IF IsNaN(a) \/ IsNaN(b) THEN NaN
    ELSE IF a[2] = 0 /\ b[2] = 0 THEN (IF a[1] = b[1] THEN a ELSE NaN)
    ELSE IF a[2] = 0 THEN a
    ELSE IF b[2] = 0 THEN b
    ELSE LET g == Gcd(a[2], b[2])
         IN  Norm(a[1] * (b[2] \div g) + b[1] * (a[2] \div g),
                  (a[2] \div g) * b[2])

Neg(a) == <<-a[1], a[2]>>

Sub(a, b) == Add(a, Neg(b))

\* a > b and a < b as float64 compares: FALSE when either side is NaN
Gt(a, b) ==
    IF IsNaN(a) \/ IsNaN(b) THEN FALSE
    ELSE IF a[2] = 0 THEN a[1] = 1 /\ b # a
    ELSE IF b[2] = 0 THEN b[1] = -1
    ELSE LET g == Gcd(a[2], b[2])
         IN  a[1] * (b[2] \div g) > b[1] * (a[2] \div g)

Lt(a, b) == Gt(b, a)


(***************************************************************************)
(* Program constants and the inputs of a run.                              *)
(***************************************************************************)
initial_cap == 10000

\* months of a year: monthly_budget = initial_cap / 12
TranchesPerYear == 12

\* df['Corr'] > 0.2.  The Corr column holds sgn(r) * r^2 for the Pearson
\* coefficient r (see Pearson), so the threshold 0.2 = 1/5 is kept as its
\* numerator and denominator and squared where it is compared.
CorrThresholdNum == 1
CorrThresholdDen == 5

\* the slice df_raw.loc['2024-01-01':'2024-12-31'], dates written yyyymmdd
WindowStart == 20240101
WindowEnd == 20241231

\* first day of the download range start="2023-01-01"
LoadStart == 20230101

\* closing prices the provider may return for a valid series
PriceLevels == {100, 110}

\* the trading calendar; all days lie inside the download range
\* start="2023-01-01", end="2025-01-01".  The downloaded frame holds a run
\* of consecutive trading days of it.
DateUniverse == {20230131, 20231229, 20240102, 20240103, 20240201, 20240301}

\* trading_fees, a proportion: no fee, and 10 % (the slider offers 0 to 1 %)
FeeRates == {<<0, 1>>, <<1, 10>>}

\* pct_change's default fill_method: "pad" forward-fills NaN before the
\* change is taken (pandas < 3), "none" leaves them (pandas >= 3).  The
\* program passes no fill_method, so the installed pandas decides.
FillMethods == {"pad", "none"}

Month(date) == (date \div 100) % 100

RECURSIVE SortedSeq(_)
SortedSeq(S) ==
    IF S = {} THEN <<>>
    ELSE LET m == CHOOSE x \in S : \A y \in S : x <= y
         IN  <<m>> \o SortedSeq(S \ {m})

VARIABLES
    dates,                \* df_raw.index
    target,               \* df_raw[target_ticker]
    guide,                \* df_raw[guide_ticker]
    lookback, lag_days, trading_fees,
    window,               \* <<first, last>> date of the evaluation slice
    pc,
    Corr,                 \* df_raw['Corr']
    df,                   \* rows of df_raw kept in df, as indices into df_raw
    Position, Trade,      \* df['Position'], df['Trade']
    c_strat, strat_path,  \* backtest loop; strat_path becomes df['Strategy']
    BuyHold,              \* df['BuyHold']
    shares, cash_spent,   \* DCA loop
    DCA,                  \* df['DCA'], filled row by row
    perf,                 \* <<perf_algo, perf_bh, perf_dca>>
    report                \* what the page shows: "none", "charts", "error"

vars == <<dates, target, guide, lookback, lag_days, trading_fees, window, pc,
          Corr, df, Position, Trade, c_strat, strat_path,
          BuyHold, shares, cash_spent, DCA, perf, report>>

inputs == <<dates, target, guide, lookback, lag_days, trading_fees, window>>

(***************************************************************************)
(* pandas column operations, on sequences of values.                       *)
(***************************************************************************)
\* a column of n rows, as a sequence
Column(f, n) == SubSeq(f, 1, n)

Values(prices) == Column([k \in 1..Len(prices) |-> Num(prices[k])], Len(prices))

\* Series.shift(-periods)
ShiftBack(s, periods) ==
    Column([k \in 1..Len(s) |->
               IF k + periods <= Len(s) THEN s[k + periods] ELSE NaN], Len(s))

\* Series.ffill(): the last value at or before k that is not NaN
RECURSIVE LastValid(_, _)
LastValid(s, k) ==
    IF k = 0 THEN NaN
    ELSE IF ~IsNaN(s[k]) THEN s[k]
    ELSE LastValid(s, k - 1)

FFill(s) == Column([k \in 1..Len(s) |-> LastValid(s, k)], Len(s))

\* Series.pct_change(periods): data / data.shift(periods) - 1
PctChange(s, periods, fill) ==
    LET data == IF fill = "pad" THEN FFill(s) ELSE s
    IN  Column([k \in 1..Len(s) |->
                   IF k - periods >= 1
                   THEN Sub(Div(data[k], data[k - periods]), Num(1))
                   ELSE NaN], Len(s))

\* Series.fillna(0)
FillNa0(s) ==
    Column([k \in 1..Len(s) |-> IF IsNaN(s[k]) THEN Num(0) ELSE s[k]], Len(s))

RECURSIVE Sum(_, _, _)
Sum(x, lo, hi) ==
    IF lo > hi THEN Num(0) ELSE Add(x[lo], Sum(x, lo + 1, hi))

RECURSIVE SumProd(_, _, _, _)
SumProd(x, y, lo, hi) ==
    IF lo > hi THEN Num(0)
    ELSE Add(Mul(x[lo], y[lo]), SumProd(x, y, lo + 1, hi))

\* Pearson correlation r of x and y over rows lo..hi, returned as
\* sgn(r) * r^2, which is rational and ordered as r is; NaN when either
\* variance is zero (0/0).
Pearson(x, y, lo, hi) ==
    LET w == Num(hi - lo + 1)
        sx == Sum(x, lo, hi)
        sy == Sum(y, lo, hi)
        cov == Sub(Mul(w, SumProd(x, y, lo, hi)), Mul(sx, sy))
        vx == Sub(Mul(w, SumProd(x, x, lo, hi)), Mul(sx, sx))
        vy == Sub(Mul(w, SumProd(y, y, lo, hi)), Mul(sy, sy))
    IN  IF vx[1] = 0 \/ vy[1] = 0 THEN NaN
        ELSE Mul(Num(Sign(cov[1])), Div(Mul(cov, cov), Mul(vx, vy)))

\* x.rolling(w).corr(y): defined once w observations are in the window;
\* rolling treats a non-finite observation as missing.
RollingCorr(x, y, w) ==
    Column([k \in 1..Len(x) |->
               IF k - w + 1 >= 1
                  /\ \A m \in (k - w + 1)..k : IsFinite(x[m]) /\ IsFinite(y[m])
               THEN Pearson(x, y, k - w + 1, k)
               ELSE NaN], Len(x))

(***************************************************************************)
(* The computations of the script, as operators.                           *)
(***************************************************************************)
\* df_raw['Guide_Future'] = guide.shift(-lag_days);
\* df_raw['Guide_Return_Future'] = Guide_Future.pct_change(lag_days)
GuideReturnFuture(g, lag, fill) ==
    PctChange(ShiftBack(Values(g), lag), lag, fill)

\* df_raw['Corr'] = target.pct_change().rolling(lookback).corr(guide.pct_change())
\* (the price columns hold no NaN, so pct_change fills nothing here)
CorrColumn(t, g, w) ==
    RollingCorr(PctChange(Values(t), 1, "none"), PctChange(Values(g), 1, "none"), w)

\* df = df_raw.loc[first:last]: the rows whose date lies in the slice
WindowRows(idx, win) ==
    SelectSeq([k \in 1..Len(idx) |-> k],
              LAMBDA k : win[1] <= idx[k] /\ idx[k] <= win[2])

CorrThreshold ==
    Norm(CorrThresholdNum * CorrThresholdNum, CorrThresholdDen * CorrThresholdDen)

\* np.where((Guide_Return_Future > 0) & (Corr > 0.2), 1, 0) on one row
PositionOf(grf, corr) ==
    IF Gt(grf, Num(0)) /\ Gt(corr, CorrThreshold) THEN 1 ELSE 0

PositionColumn(rows, grf, corr) ==
    Column([k \in 1..Len(rows) |-> PositionOf(grf[rows[k]], corr[rows[k]])],
           Len(rows))

\* TradeColumn with the first diff taken against a flat position
TradeColumnFromFlat(pos) ==
    [k \in 1..Len(pos) |-> IF k = 1 THEN pos[1] ELSE Abs(pos[k] - pos[k - 1])]

\* df['Position'].diff().abs().fillna(0): the first diff is NaN, filled with 0
TradeColumn(pos) ==
    Column([k \in 1..Len(pos) |-> IF k = 1 THEN 0 ELSE Abs(pos[k] - pos[k - 1])],
           Len(pos))

\* the target prices of the rows of df
TargetOf(rows, t) == Column([k \in 1..Len(rows) |-> t[rows[k]]], Len(rows))

\* rets = df[target_ticker].pct_change().fillna(0).values
Rets(rows, t) == FillNa0(PctChange(Values(TargetOf(rows, t)), 1, "none"))

\* StratStep earning the return of day i on the position of day i itself
StratStepSameDay(c, i, pos, trade, rets, fee) ==
    LET c1 == IF i > 1 /\ pos[i] = 1
              THEN Mul(c, Add(Num(1), rets[i])) ELSE c
    IN  IF trade[i] = 1 THEN Mul(c1, Sub(Num(1), fee)) ELSE c1

\* StratStep charging an exit twice (a fee for the sale and one for the buy)
StratStepDoubleExitFee(c, i, pos, trade, rets, fee) ==
    LET c1 == IF i > 1 /\ pos[i - 1] = 1
              THEN Mul(c, Add(Num(1), rets[i])) ELSE c
        c2 == IF trade[i] = 1 THEN Mul(c1, Sub(Num(1), fee)) ELSE c1
    IN  IF trade[i] = 1 /\ pos[i] = 0 THEN Mul(c2, Sub(Num(1), fee)) ELSE c2

\* StratStep earning the daily return whatever the position
StratStepAlwaysInvested(c, i, pos, trade, rets, fee) ==
    LET c1 == IF i > 1 THEN Mul(c, Add(Num(1), rets[i])) ELSE c
    IN  IF trade[i] = 1 THEN Mul(c1, Sub(Num(1), fee)) ELSE c1

\* one pass of the body of the backtest loop for day i (1-based): the
\* capital appended to strat_path
StratStep(c, i, pos, trade, rets, fee) ==
    LET c1 == IF i > 1 /\ pos[i - 1] = 1
              THEN Mul(c, Add(Num(1), rets[i])) ELSE c
    IN  IF trade[i] = 1 THEN Mul(c1, Sub(Num(1), fee)) ELSE c1

\* BuyHoldColumn dividing by the last price of the slice instead of the first
BuyHoldColumnLast(prices) ==
    [k \in 1..Len(prices) |->
        Mul(Div(Num(prices[k]), Num(prices[Len(prices)])), Num(initial_cap))]

\* df['BuyHold'] = (df[target] / df[target].iloc[0]) * initial_cap
BuyHoldColumn(prices) ==
    [k \in 1..Len(prices) |->
        Mul(Div(Num(prices[k]), Num(prices[1])), Num(initial_cap))]

monthly_budget == Div(Num(initial_cap), Num(TranchesPerYear))

\* df[df.index.month == date.month].index[0]: the first date of df in the
\* month (of any year) of row k
FirstOfMonth(idx, rows, k) ==
    LET first == CHOOSE m \in 1..Len(rows) :
                    /\ Month(idx[rows[m]]) = Month(idx[rows[k]])
                    /\ \A n \in 1..(m - 1) :
                          Month(idx[rows[n]]) # Month(idx[rows[k]])
    IN  idx[rows[first]]

\* DcaBuys comparing the month of row k with the month of the row before
DcaBuysMonthChange(idx, rows, k, spent) ==
    /\ k = 1 \/ Month(idx[rows[k]]) # Month(idx[rows[k - 1]])
    /\ Lt(spent, Num(initial_cap))

\* the condition of the purchase of the DCA loop on row k of df
DcaBuys(idx, rows, k, spent) ==
    /\ idx[rows[k]] = FirstOfMonth(idx, rows, k)
    /\ Lt(spent, Num(initial_cap))

\* SharesBought investing the whole tranche, the fee forgotten
SharesBoughtNoFee(fee, price) == Div(monthly_budget, Num(price))

\* shares += (monthly_budget * (1 - trading_fees)) / row[target_ticker]
SharesBought(fee, price) ==
    Div(Mul(monthly_budget, Sub(Num(1), fee)), Num(price))

\* DcaValue that leaves out the cash not yet invested
DcaValueSharesOnly(sh, price, spent) == Mul(sh, Num(price))

\* df.loc[date, 'DCA'] = (shares * row[target]) + (initial_cap - cash_spent)
DcaValue(sh, price, spent) ==
    Add(Mul(sh, Num(price)), Sub(Num(initial_cap), spent))

\* ((curve.iloc[-1] / initial_cap) - 1) * 100
Perf(curve) ==
    Mul(Sub(Div(curve[Len(curve)], Num(initial_cap)), Num(1)), Num(100))

(***************************************************************************)
(* Initial states: the sidebar parameters and the downloaded frame.        *)
(***************************************************************************)
Computed0 ==
    /\ pc = "signal"
    /\ Corr = <<>>
    /\ df = <<>>
    /\ Position = <<>>
    /\ Trade = <<>>
    /\ c_strat = Num(initial_cap)
    /\ strat_path = <<>>
    /\ BuyHold = <<>>
    /\ shares = Num(0)
    /\ cash_spent = Num(0)
    /\ DCA = <<>>
    /\ perf = <<>>
    /\ report = "none"

Frames(targetLevels) ==
    /\ \E lo, hi \in 1..Cardinality(DateUniverse) :
          /\ hi - lo + 1 \in 1..MaxRows
          /\ dates = SubSeq(SortedSeq(DateUniverse), lo, hi)
    /\ target \in [1..Len(dates) -> targetLevels]
    /\ guide \in [1..Len(dates) -> PriceLevels]
    /\ lookback = LookbackDays
    /\ lag_days \in 1..MaxLag
    /\ trading_fees \in FeeRates

\* a frame of the first trading day of every month of 2024, with the last
\* trading day of January 2023 before it and a second day of December after
\* it; each price series keeps one level or steps once to another, the
\* target on any day and the guide at mid-year
YearCalendar ==
    <<20230131, 20240102, 20240201, 20240301, 20240401, 20240502, 20240603,
      20240701, 20240801, 20240903, 20241001, 20241101, 20241202, 20241203>>

StepPaths(n, days) ==
    {[k \in 1..n |-> IF k < c THEN a ELSE b] :
        a \in PriceLevels, b \in PriceLevels, c \in days}

YearFrames ==
    /\ dates = YearCalendar
    /\ target \in StepPaths(Len(YearCalendar), 1..Len(YearCalendar))
    /\ guide \in StepPaths(Len(YearCalendar), {Len(YearCalendar) \div 2})
    /\ lookback = LookbackDays
    /\ lag_days \in 1..MaxLag
    /\ trading_fees \in FeeRates

\* the script as written: positive prices, the 2024 slice
Init ==
    /\ Frames(PriceLevels)
    /\ window = <<WindowStart, WindowEnd>>
    /\ Computed0

(***************************************************************************)
(* Actions.                                                                *)
(***************************************************************************)
\* lines 34-53: the signal columns, the 2024 slice, Position and Trade
GenerateSignal ==
    /\ pc = "signal"
    /\ df' = WindowRows(dates, window)
    /\ Corr' = CorrColumn(target, guide, lookback)
    /\ \E fill \in FillMethods :
          Position' = PositionColumn(df',
                         GuideReturnFuture(guide, lag_days, fill), Corr')
    /\ Trade' = TradeColumn(Position')
    /\ c_strat' = Num(initial_cap)
    /\ strat_path' = <<>>
    /\ pc' = "backtest"
    /\ UNCHANGED <<inputs, BuyHold, shares, cash_spent, DCA, perf, report>>

\* lines 55-61: one iteration of the backtest loop
BacktestStep ==
    /\ pc = "backtest"
    /\ Len(strat_path) < Len(df)
    /\ c_strat' = StratStep(c_strat, Len(strat_path) + 1, Position, Trade,
                            Rets(df, target), trading_fees)
    /\ strat_path' = Append(strat_path, c_strat')
    /\ UNCHANGED <<inputs, pc, Corr, df, Position, Trade,
                   BuyHold, shares, cash_spent, DCA, perf, report>>

\* lines 63-70: the loop is over; the buy-and-hold column and the DCA set-up
BuyAndHold ==
    /\ pc = "backtest"
    /\ Len(strat_path) = Len(df)
    /\ Len(df) > 0
    /\ BuyHold' = BuyHoldColumn(TargetOf(df, target))
    /\ shares' = Num(0)
    /\ cash_spent' = Num(0)
    /\ DCA' = <<>>
    /\ pc' = "dca"
    /\ UNCHANGED <<inputs, Corr, df, Position, Trade,
                   c_strat, strat_path, perf, report>>

\* line 64 on an empty slice: iloc[0] raises IndexError
EmptySlice ==
    /\ pc = "backtest"
    /\ Len(strat_path) = Len(df)
    /\ Len(df) = 0
    /\ pc' = "except"
    /\ UNCHANGED <<inputs, Corr, df, Position, Trade,
                   c_strat, strat_path, BuyHold, shares, cash_spent, DCA,
                   perf, report>>

\* lines 71-75: one row of the DCA loop
DcaStep ==
    /\ pc = "dca"
    /\ Len(DCA) < Len(df)
    /\ LET k == Len(DCA) + 1
           price == target[df[k]]
           buys == DcaBuys(dates, df, k, cash_spent)
       IN  /\ shares' = IF buys THEN Add(shares, SharesBought(trading_fees, price))
                        ELSE shares
           /\ cash_spent' = IF buys THEN Add(cash_spent, monthly_budget)
                            ELSE cash_spent
           /\ DCA' = Append(DCA, DcaValue(shares', price, cash_spent'))
    /\ UNCHANGED <<inputs, pc, Corr, df, Position, Trade,
                   c_strat, strat_path, BuyHold, perf, report>>

\* lines 78-104: the three metrics and the charts
ShowResults ==
    /\ pc = "dca"
    /\ Len(DCA) = Len(df)
    /\ perf' = <<Perf(strat_path), Perf(BuyHold), Perf(DCA)>>
    /\ report' = "charts"
    /\ pc' = "done"
    /\ UNCHANGED <<inputs, Corr, df, Position, Trade,
                   c_strat, strat_path, BuyHold, shares, cash_spent, DCA>>

\* lines 106-107: except Exception -> st.error
ShowError ==
    /\ pc = "except"
    /\ report' = "error"
    /\ pc' = "done"
    /\ UNCHANGED <<inputs, Corr, df, Position, Trade,
                   c_strat, strat_path, BuyHold, shares, cash_spent, DCA, perf>>

Next ==
    \/ GenerateSignal
    \/ BacktestStep
    \/ BuyAndHold
    \/ EmptySlice
    \/ DcaStep
    \/ ShowResults
    \/ ShowError

Spec == Init /\ [][Next]_vars

(***************************************************************************)
(* Other specifications: the same program on wider inputs.                 *)
(***************************************************************************)
\* a provider that may return a zero close for the target
InitZero ==
    /\ Frames({0, 100})
    /\ window = <<WindowStart, WindowEnd>>
    /\ Computed0

SpecZero == InitZero /\ [][Next]_vars

\* frames of the last five trading days of the calendar whose guide moves
\* over three levels and closes with two rising days
TrendLevels == {100, 200, 400}

TrendFrames ==
    /\ LET all == SortedSeq(DateUniverse)
       IN  dates = SubSeq(all, 2, Len(all))
    /\ target \in [1..Len(dates) -> PriceLevels]
    /\ guide \in [1..Len(dates) -> TrendLevels]
    /\ guide[Len(dates) - 2] < guide[Len(dates) - 1]
    /\ guide[Len(dates) - 1] < guide[Len(dates)]
    /\ lookback = LookbackDays
    /\ lag_days = 1
    /\ trading_fees \in FeeRates

InitTrend ==
    /\ Frames(PriceLevels) \/ TrendFrames
    /\ window = <<WindowStart, WindowEnd>>
    /\ Computed0

SpecTrend == InitTrend /\ [][Next]_vars

\* the script on short frames and on the frame of a whole year
InitYear ==
    /\ Frames(PriceLevels) \/ YearFrames
    /\ window = <<WindowStart, WindowEnd>>
    /\ Computed0

SpecYear == InitYear /\ [][Next]_vars

\* the evaluation slice as a parameter: the whole download range, or the
\* 2024 slice of the script (which Spec explores in full; here without fee
\* and with a lag of one day)
InitWindow ==
    /\ \/ Frames(PriceLevels) /\ window = <<LoadStart, WindowEnd>>
       \/ YearFrames /\ window = <<LoadStart, WindowEnd>>
       \/ /\ Frames(PriceLevels)
          /\ window = <<WindowStart, WindowEnd>>
          /\ lag_days = 1
          /\ trading_fees = Num(0)
    /\ Computed0

SpecWindow == InitWindow /\ [][Next]_vars

(***************************************************************************)
(* Vocabulary of the properties.                                           *)
(***************************************************************************)
One == Num(1)
Cap == Num(initial_cap)

\* the target price on day k of the evaluation window
WinPrice(k) == target[df[k]]
WinDate(k) == dates[df[k]]

\* the daily return of day k > 1 of the window
DailyReturn(k) == Sub(Div(Num(WinPrice(k)), Num(WinPrice(k - 1))), One)

Flagged(k) == Trade[k] = 1

SignalDone == pc # "signal"
BacktestDone == SignalDone /\ Len(strat_path) = Len(df) /\ Len(df) > 0
Shown == pc = "done" /\ report = "charts"

(***************************************************************************)
(* C1.  As claimed: on a valid run the first value of all three curves,    *)
(* strategy, buy-and-hold and DCA, is exactly initialCapital.              *)
(***************************************************************************)
C1_AllCurvesStartAtInitialCap ==
    Shown => /\ strat_path[1] = Cap
             /\ BuyHold[1] = Cap
             /\ DCA[1] = Cap

(***************************************************************************)
(* C1 as amended: the strategy and buy-and-hold curves start at exactly    *)
(* initialCapital; the DCA curve starts at initialCapital minus the fee    *)
(* of the first tranche, initialCapital - (initialCapital/12) * feeRate,   *)
(* which is initialCapital only when feeRate is 0.                         *)
(***************************************************************************)
C1_FirstValues ==
    /\ Len(strat_path) >= 1 => strat_path[1] = Cap
    /\ Len(BuyHold) >= 1 => BuyHold[1] = Cap
    /\ Len(DCA) >= 1 => DCA[1] = Sub(Cap, Mul(monthly_budget, trading_fees))

C1_Witness ==
    /\ Shown
    /\ trading_fees # Num(0)
    /\ Position[1] = 1
    /\ DCA[1] # Cap

(***************************************************************************)
(* C2.  The strategy curve is the left-to-right fold: capital[1] is        *)
(* initialCapital and, for every later day i, capital[i] is capital[i-1]   *)
(* times (1 + dailyReturn(i)) if the position of day i-1 was 1, times      *)
(* (1 - feeRate) if a trade is flagged on day i.  Prices 100,100,110,110   *)
(* with signal 0,1,1,0 and fee 0.1 give 10000, 9000, 9900, 8910.           *)
(***************************************************************************)
Fold(k) ==
    IF k = 1 THEN Cap
    ELSE Mul(Mul(strat_path[k - 1],
                 IF Position[k - 1] = 1 THEN Add(One, DailyReturn(k)) ELSE One),
             IF Flagged(k) THEN Sub(One, trading_fees) ELSE One)

ScenarioInputs ==
    /\ Len(df) = 4
    /\ [k \in 1..4 |-> WinPrice(k)] = <<100, 100, 110, 110>>
    /\ Position = <<0, 1, 1, 0>>
    /\ trading_fees = <<1, 10>>

C2_StrategyFold ==
    /\ \A k \in 1..Len(strat_path) : strat_path[k] = Fold(k)
    /\ (ScenarioInputs /\ BacktestDone) =>
          strat_path = <<Num(10000), Num(9000), Num(9900), Num(8910)>>

C2_Witness == ScenarioInputs /\ Shown

(***************************************************************************)
(* C3.  With exactly one entry and one exit (two flagged transitions) the  *)
(* last strategy value is initialCapital times the product of              *)
(* (1 + dailyReturn(i)) over the days i whose previous-day position was 1, *)
(* times (1 - f)^2.                                                        *)
(***************************************************************************)
Entries == {k \in 2..Len(Position) : Position[k - 1] = 0 /\ Position[k] = 1}
Exits == {k \in 2..Len(Position) : Position[k - 1] = 1 /\ Position[k] = 0}

RECURSIVE GrowthProduct(_)
GrowthProduct(k) ==
    IF k <= 1 THEN One
    ELSE Mul(GrowthProduct(k - 1),
             IF Position[k - 1] = 1 THEN Add(One, DailyReturn(k)) ELSE One)

OneEntryOneExit ==
    /\ Cardinality(Entries) = 1
    /\ Cardinality(Exits) = 1
    /\ Cardinality({k \in 1..Len(Trade) : Flagged(k)}) = 2

C3_TwoTransitionsTwoFees ==
    (BacktestDone /\ OneEntryOneExit) =>
        strat_path[Len(df)] =
            Mul(Mul(Cap, GrowthProduct(Len(df))),
                Mul(Sub(One, trading_fees), Sub(One, trading_fees)))

C3_Witness ==
    /\ Shown
    /\ OneEntryOneExit
    /\ trading_fees # Num(0)
    /\ GrowthProduct(Len(df)) # One

(***************************************************************************)
(* C4.  The trade flag of the first date of the window is false, also      *)
(* when Position is 1 there; for a later index the flag is true exactly    *)
(* when the position differs from the previous one.  So a position open on *)
(* the first day pays no fee on that day, and its exit pays one fee.       *)
(***************************************************************************)
C4_TradeFlags ==
    SignalDone =>
        /\ Len(Trade) = Len(df)
        /\ Len(df) >= 1 => ~Flagged(1)
        /\ \A k \in 2..Len(df) : Flagged(k) <=> Position[k] # Position[k - 1]
        /\ (Len(strat_path) >= 1 /\ Position[1] = 1) => strat_path[1] = Cap
        /\ \A k \in 2..Len(strat_path) :
              (Position[k - 1] = 1 /\ Position[k] = 0) =>
                  strat_path[k] = Mul(Mul(strat_path[k - 1], Add(One, DailyReturn(k))),
                                      Sub(One, trading_fees))

C4_Witness ==
    /\ Shown
    /\ trading_fees # Num(0)
    /\ Len(df) >= 2
    /\ Position[1] = 1
    /\ Position[2] = 0

(***************************************************************************)
(* C9.  The buy-and-hold value of every date d of the window is            *)
(* price(d) / price(d0) * initialCapital, a function of the prices alone   *)
(* (not of the fee or the signal); it is initialCapital wherever the price *)
(* equals the first price.                                                 *)
(***************************************************************************)
C9_BuyHoldCurve ==
    Len(BuyHold) > 0 =>
        /\ Len(BuyHold) = Len(df)
        /\ \A k \in 1..Len(df) :
              /\ BuyHold[k] = Norm(WinPrice(k) * initial_cap, WinPrice(1))
              /\ WinPrice(k) = WinPrice(1) => BuyHold[k] = Cap

C9_Witness ==
    /\ Shown
    /\ Len(df) >= 3
    /\ WinPrice(Len(df)) = WinPrice(1)
    /\ WinPrice(2) # WinPrice(1)
    /\ trading_fees # Num(0)
    /\ \E k \in 1..Len(df) : Flagged(k)
    /\ BuyHold[Len(df)] = Cap

(***************************************************************************)
(* C10.  A day whose previous-day position was 0 and on which no trade is  *)
(* flagged leaves the strategy capital unchanged whatever the price does;  *)
(* with Position 0 on every date the strategy curve is flat at             *)
(* initialCapital.                                                         *)
(***************************************************************************)
C10_FlatWhenOut ==
    /\ \A k \in 2..Len(strat_path) :
          (Position[k - 1] = 0 /\ ~Flagged(k)) => strat_path[k] = strat_path[k - 1]
    /\ (\A k \in 1..Len(Position) : Position[k] = 0) =>
          \A k \in 1..Len(strat_path) : strat_path[k] = Cap

C10_Witness ==
    /\ Shown
    /\ Len(df) >= 3
    /\ \A k \in 1..Len(df) : Position[k] = 0
    /\ WinPrice(2) # WinPrice(1)
    /\ WinPrice(3) # WinPrice(2)
    /\ trading_fees # Num(0)

(***************************************************************************)
(* C5.  In the DCA loop the cash spent is always a whole number (at most   *)
(* 12) of tranches of initialCapital/12 and never exceeds initialCapital;  *)
(* the DCA value recorded for a date is sharesHeld * price(date) +         *)
(* (initialCapital - cashSpent); and a purchase adds                       *)
(* monthlyBudget * (1 - feeRate) / price shares and the whole              *)
(* monthlyBudget to the cash spent.                                        *)
(***************************************************************************)
DcaConservation ==
    (pc = "dca" \/ Shown) =>
        /\ \E n \in 0..TranchesPerYear : cash_spent = Mul(Num(n), monthly_budget)
        /\ ~Gt(cash_spent, Cap)
        /\ Len(DCA) >= 1 =>
              DCA[Len(DCA)] = Add(Mul(shares, Num(WinPrice(Len(DCA)))),
                                  Sub(Cap, cash_spent))

DcaPurchase ==
    (cash_spent' # cash_spent \/ shares' # shares) =>
        /\ cash_spent' = Add(cash_spent, monthly_budget)
        /\ shares' = Add(shares,
                         Div(Mul(monthly_budget, Sub(One, trading_fees)),
                             Num(WinPrice(Len(DCA')))))

C5_DcaConservation == []DcaConservation /\ [][DcaPurchase]_vars

\* the twelve tranches are all spent and a later row buys nothing
C5_Witness ==
    /\ Shown
    /\ cash_spent = Cap
    /\ Len(df) > TranchesPerYear
    /\ trading_fees # Num(0)
    /\ WinPrice(Len(df)) # WinPrice(1)

(***************************************************************************)
(* C6.  As claimed: for any window of strictly increasing dates, also one  *)
(* that covers more than twelve calendar months or the same month number   *)
(* in two years, a row of the DCA loop buys exactly when the cash spent is *)
(* below initialCapital and the row is the first of the window or its      *)
(* calendar month differs from that of the previous row.                   *)
(***************************************************************************)
YearMonth(date) == date \div 100

ClaimedBuyRow(k) ==
    /\ Lt(cash_spent, Cap)
    /\ k = 1 \/ YearMonth(WinDate(k)) # YearMonth(WinDate(k - 1))

DcaRowDone == pc = "dca" /\ Len(DCA') = Len(DCA) + 1

FirstRowOfMonthNumber(k) ==
    \A m \in 1..(k - 1) : Month(WinDate(m)) # Month(WinDate(k))

HasFuture(d) == d + lag_days <= Len(dates)

C7_PositionNeedsDefinedInputs ==
    SignalDone =>
        \A k \in 1..Len(df) :
            LET d == df[k]
            IN  /\ Position[k] \in {0, 1}
                /\ Position[k] = 1 =>
                      /\ HasFuture(d)
                      /\ guide[d + lag_days] > guide[d]
                      /\ ~IsNaN(Corr[d])
                      /\ Gt(Corr[d], CorrThreshold)
                /\ (~HasFuture(d) \/ IsNaN(Corr[d])) => Position[k] = 0

(***************************************************************************)
(* C8.  When the target price is zero on the first date of the window or   *)
(* on a date of a DCA purchase, the run ends in an error that is reported, *)
(* and no curve or metric with a non-finite value is produced.             *)
(***************************************************************************)
ZeroDivisor ==
    /\ Len(df) >= 1
    /\ \E k \in 1..Len(df) :
          /\ WinPrice(k) = 0
          /\ k = 1 \/ Month(WinDate(k)) # Month(WinDate(k - 1))

AllFinite(curve) == \A k \in 1..Len(curve) : IsFinite(curve[k])

C8_ZeroPriceIsAnError ==
    (pc = "done" /\ ZeroDivisor) =>
        /\ report = "error"
        /\ AllFinite(strat_path) /\ AllFinite(BuyHold) /\ AllFinite(DCA)
        /\ AllFinite(perf)

=============================================================================
